---- MODULE Spec2Model ----
(***************************************************************************)
(* A model of Danbooru-Trends: the growth comparison and ranking engine    *)
(* (compare_last_two.py) and the cumulative-table merge of the scraper     *)
(* (scrape_tags.py).                                                       *)
(*                                                                         *)
(* Strings the code takes apart (file names, CSV fields) are sequences of  *)
(* one-character strings.  A Python dict is a sequence of <<key, value>>   *)
(* pairs in insertion order.  An optional argument is <<>> (None) or <<x>>. *)
(***************************************************************************)
EXTENDS Integers, Sequences, FiniteSets, TLC

VARIABLES
    pc,          \* position of the running routine
    old_tags,    \* calculate_growth: the older tag count table
    new_tags,    \* calculate_growth: the newer tag count table
    raw_growth,  \* calculate_growth's result
    stats,       \* the {'percent': ..., 'diff': ...} entry of process_comparison
    snapshot,    \* read_tags: the snapshot file (NoFile or its rows)
    filter,      \* read_tags: [tag_type_id, allowed_tags]
    tags,        \* read_tags: the returned table
    tags_dir,    \* the snapshot directory: whether it exists, and its entries
    args,        \* main: the parsed command line
    files,       \* the list get_sorted_files returned
    daily,       \* the daily series
    weekly,      \* the weekly series
    tag_stats,   \* tag_stats.json: None, or Some(final_data) once written
    console,     \* what was printed
    error,       \* None, or Some(exception) once one escaped
    runs,        \* scraper: the runs started so far
    today,       \* scraper: the day of the run (filename_date is its text)
    dan_tags,    \* scraper: the tags fetched, in the order of the API
    daily_csv,   \* scraper: the daily snapshot file of the run
    tags_csv,    \* tags.csv, the cumulative table
    before       \* tags.csv as the last merge found it

growthVars == <<old_tags, new_tags, raw_growth, stats>>
readVars == <<snapshot, filter, tags>>
seriesVars == <<tags_dir, args, files, daily, weekly, tag_stats, console, error>>

mergeVars == <<runs, today, dan_tags, daily_csv, tags_csv, before>>

vars == <<pc, growthVars, readVars, seriesVars, mergeVars>>

(***************************************************************************)
(* Bounds of the model.                                                    *)
(***************************************************************************)
MaxSmallTags == 2     \* tags per table in the exhaustively enumerated tables
MaxPatternTags == 22  \* tags per table in the patterned (long) tables
MaxPatternMod == 3    \* number of distinct key values in a patterned table
MaxFileRows == 2      \* rows of a snapshot file given to read_tags
MaxWeeks == 4         \* Mondays that may have a snapshot in the directory
MaxRuns == 2          \* runs of the scraper
MaxDays == 2          \* days on which the scraper may run

(***************************************************************************)
(* Program constants.                                                      *)
(***************************************************************************)
MIN_COUNT_THRESHOLD == 50
TOP_COUNT == 20
TAG_TYPES == [general |-> 0, artist |-> 1, series |-> 3, character |-> 4]

None == <<>>
Some(x) == <<x>>

\* a part of the state that the running routine does not use
GrowthIdle == old_tags = <<>> /\ new_tags = <<>> /\ raw_growth = <<>> /\ stats = <<>>
ReadIdle == snapshot = <<>> /\ filter = <<>> /\ tags = <<>>
SeriesIdle ==
    /\ tags_dir = <<>> /\ args = <<>> /\ files = <<>> /\ daily = <<>> /\ weekly = <<>>
    /\ tag_stats = <<>> /\ console = <<>> /\ error = <<>>
MergeIdle ==
    /\ runs = 0 /\ today = 0 /\ dan_tags = <<>> /\ daily_csv = <<>> /\ tags_csv = <<>>
    /\ before = <<>>
\* a path of the file store: no file there, or a file of CSV rows
NoFile == [exists |-> FALSE, rows |-> <<>>]
File(rows) == [exists |-> TRUE, rows |-> rows]

(***************************************************************************)
(* Sequences and dicts.                                                    *)
(***************************************************************************)
Reverse(s) == [i \in 1..Len(s) |-> s[Len(s) + 1 - i]]

Take(s, n) == SubSeq(s, 1, IF Len(s) < n THEN Len(s) ELSE n)

Range(s) == {s[i] : i \in DOMAIN s}

Max(S) == CHOOSE x \in S : \A y \in S : y <= x

DictKeys(d) == {d[i][1] : i \in DOMAIN d}

DictHas(d, k) == \E i \in DOMAIN d : d[i][1] = k

DictGet(d, k) == d[CHOOSE i \in DOMAIN d : d[i][1] = k][2]

\* d[k] = v: an existing key keeps its place, a new key goes last
DictSet(d, k, v) ==
    IF DictHas(d, k)
    THEN [i \in DOMAIN d |-> IF d[i][1] = k THEN <<k, v>> ELSE d[i]]
    ELSE Append(d, <<k, v>>)

(***************************************************************************)
(* Characters and int().                                                   *)
(***************************************************************************)
Digits == <<"0", "1", "2", "3", "4", "5", "6", "7", "8", "9">>

IsDigit(c) == \E i \in 1..10 : Digits[i] = c

DigitVal(c) == (CHOOSE i \in 1..10 : Digits[i] = c) - 1

\* the characters of the model in code point order
CodePointOrder ==
    <<" ", "+", "-", ".">> \o Digits \o
    <<"_", "a", "b", "c", "d", "e", "f", "g", "h", "i", "j", "k", "l", "m",
      "n", "o", "p", "q", "r", "s", "t", "u", "v", "w", "x", "y", "z">>

Ord(c) == CHOOSE i \in DOMAIN CodePointOrder : CodePointOrder[i] = c

\* str.strip() of whitespace
RECURSIVE LStrip(_)
LStrip(s) == IF s # <<>> /\ Head(s) = " " THEN LStrip(Tail(s)) ELSE s

Strip(s) == Reverse(LStrip(Reverse(LStrip(s))))

\* the digits of a decimal literal: single underscores between digits only
RECURSIVE DigitsOk(_, _)
DigitsOk(s, afterDigit) ==
    IF s = <<>> THEN afterDigit
    ELSE IF IsDigit(Head(s)) THEN DigitsOk(Tail(s), TRUE)
    ELSE IF Head(s) = "_" THEN afterDigit /\ DigitsOk(Tail(s), FALSE)
    ELSE FALSE

RECURSIVE DigitsVal(_, _)
DigitsVal(s, acc) ==
    IF s = <<>> THEN acc
    ELSE IF Head(s) = "_" THEN DigitsVal(Tail(s), acc)
    ELSE DigitsVal(Tail(s), 10 * acc + DigitVal(Head(s)))

\* int(s): [ok |-> FALSE] stands for ValueError
ParseInt(s) ==
    LET t == Strip(s)
        signed == t # <<>> /\ Head(t) \in {"+", "-"}
        body == IF signed THEN Tail(t) ELSE t
    IN  IF DigitsOk(body, FALSE)
        THEN [ok |-> TRUE,
              val |-> IF signed /\ Head(t) = "-"
                      THEN 0 - DigitsVal(body, 0) ELSE DigitsVal(body, 0)]
        ELSE [ok |-> FALSE, val |-> 0]

(***************************************************************************)
(* read_tags                                                               *)
(***************************************************************************)
\* the body of the row loop: TRUE when the row reaches tags[row[0]] = int(row[2])
\* without IndexError, ValueError or continue
RowStoredEager(row, tag_type_id, allowed_tags) ==
    /\ Len(row) >= 2
    /\ ParseInt(row[2]).ok
    /\ tag_type_id # None => ParseInt(row[2]).val = tag_type_id[1]
    /\ allowed_tags # None => row[1] \in allowed_tags[1]
    /\ Len(row) >= 3
    /\ ParseInt(row[3]).ok

RowStored(row, tag_type_id, allowed_tags) ==
    /\ tag_type_id # None =>
          /\ Len(row) >= 2
          /\ ParseInt(row[2]).ok
          /\ ParseInt(row[2]).val = tag_type_id[1]
    /\ allowed_tags # None =>
          /\ Len(row) >= 1
          /\ row[1] \in allowed_tags[1]
    /\ Len(row) >= 3
    /\ ParseInt(row[3]).ok

RECURSIVE ReadRows(_, _, _, _)
ReadRows(rows, tag_type_id, allowed_tags, acc) ==
    IF rows = <<>> THEN acc
    ELSE ReadRows(Tail(rows), tag_type_id, allowed_tags,
                  IF RowStored(Head(rows), tag_type_id, allowed_tags)
                  THEN DictSet(acc, Head(rows)[1], ParseInt(Head(rows)[3]).val)
                  ELSE acc)

read_tags(file, tag_type_id, allowed_tags) ==
    IF ~file.exists THEN <<>>
    ELSE ReadRows(file.rows, tag_type_id, allowed_tags, <<>>)

(***************************************************************************)
(* calculate_growth                                                        *)
(***************************************************************************)
RECURSIVE Gcd(_, _)
Gcd(a, b) == IF b = 0 THEN a ELSE Gcd(b, a % b)

Abs(n) == IF n < 0 THEN 0 - n ELSE n

\* the quotient n/d (d > 0) in lowest terms.  For the counts of the model
\* distinct quotients are distinct floats, in the same order.
Ratio(n, d) ==
    LET g == Gcd(Abs(n), d) IN <<n \div g, d \div g>>

RatioLe(p, q) == p[1] * q[2] <= q[1] * p[2]

GrowthRecord(tag, old_count, new_count) ==
    [tag |-> tag, old |-> old_count, new |-> new_count,
     diff |-> new_count - old_count,
     percent |-> Ratio((new_count - old_count) * 100, old_count)]

TakesPartFloorOld(old, tag, new_count) ==
    /\ DictHas(old, tag)
    /\ new_count >= MIN_COUNT_THRESHOLD
    /\ DictGet(old, tag) >= MIN_COUNT_THRESHOLD

TakesPart(old, tag, new_count) ==
    /\ DictHas(old, tag)
    /\ new_count >= MIN_COUNT_THRESHOLD
    /\ DictGet(old, tag) > 0

RECURSIVE GrowthLoop(_, _, _)
GrowthLoop(old, items, growth) ==
    IF items = <<>> THEN growth
    ELSE LET tag == Head(items)[1]
             new_count == Head(items)[2]
         IN  GrowthLoop(old, Tail(items),
                        IF TakesPart(old, tag, new_count)
                        THEN Append(growth,
                                    GrowthRecord(tag, DictGet(old, tag), new_count))
                        ELSE growth)

calculate_growth(old, new) == GrowthLoop(old, new, <<>>)

(***************************************************************************)
(* sorted(..., key=..., reverse=True)[:TOP_COUNT]                          *)
(***************************************************************************)
KeyLe(key, a, b) ==
    CASE key = "percent" -> RatioLe(a.percent, b.percent)
      [] key = "diff" -> a.diff <= b.diff

\* x goes after every element whose key is not larger: the sort is stable
RECURSIVE InsertSorted(_, _, _)
InsertSorted(key, s, x) ==
    IF s = <<>> THEN <<x>>
    ELSE IF KeyLe(key, Head(s), x)
         THEN <<Head(s)>> \o InsertSorted(key, Tail(s), x)
         ELSE <<x>> \o s

RECURSIVE SortAscending(_, _, _)
SortAscending(key, s, acc) ==
    IF s = <<>> THEN acc
    ELSE SortAscending(key, Tail(s), InsertSorted(key, acc, Head(s)))

\* list.sort reverses the list, sorts it ascending and reverses the result
SortedReverseTiesFlipped(key, s) == Reverse(SortAscending(key, s, <<>>))

SortedReverse(key, s) == Reverse(SortAscending(key, Reverse(s), <<>>))

TopBy(key, growth) == Take(SortedReverse(key, growth), TOP_COUNT)


(***************************************************************************)
(* File names: str.endswith, str.replace(old, ''), str(n), os.path.splitext *)
(***************************************************************************)
StartsWith(s, p) == Len(s) >= Len(p) /\ SubSeq(s, 1, Len(p)) = p

EndsWith(s, p) == Len(s) >= Len(p) /\ SubSeq(s, Len(s) - Len(p) + 1, Len(s)) = p

\* s.replace(old, ''): every occurrence of old goes, left to right
RECURSIVE Remove(_, _)
Remove(s, old) ==
    IF s = <<>> THEN <<>>
    ELSE IF StartsWith(s, old) THEN Remove(SubSeq(s, Len(old) + 1, Len(s)), old)
    ELSE <<Head(s)>> \o Remove(Tail(s), old)

\* the decimal digits of n >= 0
RECURSIVE Str(_)
Str(n) == IF n < 10 THEN <<Digits[n + 1]>> ELSE Str(n \div 10) \o <<Digits[(n % 10) + 1]>>

\* n in at least w digits, zero padded (strftime's %Y, %m, %d)
ZeroPadded(n, w) ==
    LET d == Str(n) IN [i \in 1..(IF Len(d) < w THEN w - Len(d) ELSE 0) |-> "0"] \o d

\* a < b or a = b, by code points
RECURSIVE StrLe(_, _)
StrLe(a, b) ==
    IF a = <<>> THEN TRUE
    ELSE IF b = <<>> THEN FALSE
    ELSE IF Head(a) = Head(b) THEN StrLe(Tail(a), Tail(b))
    ELSE Ord(Head(a)) < Ord(Head(b))

\* os.path.splitext(f)[0]: f without its extension (the last dot counts unless
\* only dots come before it)
get_display_name(f) ==
    LET dots == {i \in DOMAIN f : f[i] = "."}
    IN  IF dots # {} /\ (\E i \in 1..(Max(dots) - 1) : f[i] # ".")
        THEN SubSeq(f, 1, Max(dots) - 1)
        ELSE f

(***************************************************************************)
(* datetime.strptime(s, '%Y-%m-%d') and date.weekday()                     *)
(***************************************************************************)
RECURSIVE SplitOn(_, _, _, _)
SplitOn(s, sep, cur, parts) ==
    IF s = <<>> THEN Append(parts, cur)
    ELSE IF Head(s) = sep THEN SplitOn(Tail(s), sep, <<>>, Append(parts, cur))
    ELSE SplitOn(Tail(s), sep, Append(cur, Head(s)), parts)

AllDigits(s) == \A i \in DOMAIN s : IsDigit(s[i])

\* %Y is \d\d\d\d, %m is 1[0-2]|0[1-9]|[1-9], %d is 3[01]|[12]\d|0[1-9]|[1-9]| [1-9]
YearField(p) == Len(p) = 4 /\ AllDigits(p)

MonthField(p) ==
    \/ Len(p) = 1 /\ IsDigit(p[1]) /\ p[1] # "0"
    \/ Len(p) = 2 /\ AllDigits(p) /\ DigitsVal(p, 0) \in 1..12

DayField(p) ==
    \/ Len(p) = 1 /\ IsDigit(p[1]) /\ p[1] # "0"
    \/ Len(p) = 2 /\ AllDigits(p) /\ DigitsVal(p, 0) \in 1..31
    \/ Len(p) = 2 /\ p[1] = " " /\ IsDigit(p[2]) /\ p[2] # "0"

IsLeap(y) == y % 4 = 0 /\ (y % 100 # 0 \/ y % 400 = 0)

DaysInMonth(y, m) ==
    IF m = 2 THEN (IF IsLeap(y) THEN 29 ELSE 28)
    ELSE IF m \in {4, 6, 9, 11} THEN 30 ELSE 31

RECURSIVE DaysBeforeMonth(_, _)
DaysBeforeMonth(y, m) ==
    IF m = 1 THEN 0 ELSE DaysBeforeMonth(y, m - 1) + DaysInMonth(y, m - 1)

DaysBeforeYear(y) ==
    (y - 1) * 365 + ((y - 1) \div 4) - ((y - 1) \div 100) + ((y - 1) \div 400)

\* date.toordinal(): 0001-01-01 is day 1
Ordinal(date) ==
    DaysBeforeYear(date.year) + DaysBeforeMonth(date.year, date.month) + date.day

\* date.weekday(): Monday is 0
weekday(date) == (Ordinal(date) + 6) % 7

NoDate == [ok |-> FALSE, year |-> 0, month |-> 0, day |-> 0]

\* [ok |-> FALSE] stands for ValueError: the text does not match the format,
\* or the fields are no date
strptime(s) ==
    LET parts == SplitOn(s, "-", <<>>, <<>>)
    IN  IF Len(parts) = 3 /\ YearField(parts[1]) /\ MonthField(parts[2])
                /\ DayField(parts[3])
        THEN LET y == DigitsVal(parts[1], 0)
                 m == DigitsVal(parts[2], 0)
                 d == DigitsVal(LStrip(parts[3]), 0)
             IN  IF y >= 1 /\ d <= DaysInMonth(y, m)
                 THEN [ok |-> TRUE, year |-> y, month |-> m, day |-> d]
                 ELSE NoDate
        ELSE NoDate

(***************************************************************************)
(* The snapshot directory                                                  *)
(***************************************************************************)
DanbooruPrefix == <<"d", "a", "n", "b", "o", "o", "r", "u", "-">>
CsvExt == <<".", "c", "s", "v">>

\* the name the scraper gives the snapshot of a day
csv_filename_only(y, m, d) ==
    DanbooruPrefix \o ZeroPadded(y, 4) \o <<"-">> \o ZeroPadded(m, 2) \o <<"-">>
        \o ZeroPadded(d, 2) \o CsvExt

NoDirectory == [exists |-> FALSE, entries |-> <<>>]
Directory(entries) == [exists |-> TRUE, entries |-> entries]

\* os.path.join(TAGS_DIR, name)
SnapshotAt(dir, name) ==
    IF dir.exists /\ name \in DOMAIN dir.entries THEN File(dir.entries[name]) ELSE NoFile

\* os.listdir: the names in some order
RECURSIVE listdir(_)
listdir(names) ==
    IF names = {} THEN <<>>
    ELSE LET n == CHOOSE x \in names : TRUE IN <<n>> \o listdir(names \ {n})

RECURSIVE SortNames(_, _)
SortNames(s, acc) ==
    IF s = <<>> THEN acc
    ELSE LET lower == SelectSeq(acc, LAMBDA a : StrLe(a, Head(s)))
             upper == SelectSeq(acc, LAMBDA a : ~StrLe(a, Head(s)))
         IN  SortNames(Tail(s), lower \o <<Head(s)>> \o upper)

get_sorted_filesAnyName(dir) ==
    IF ~dir.exists THEN [raised |-> TRUE, files |-> <<>>]
    ELSE [raised |-> FALSE, files |-> SortNames(listdir(DOMAIN dir.entries), <<>>)]

\* raised: os.listdir's FileNotFoundError, which nothing here catches
get_sorted_files(dir) ==
    IF ~dir.exists THEN [raised |-> TRUE, files |-> <<>>]
    ELSE [raised |-> FALSE,
          files |-> SortNames(SelectSeq(listdir(DOMAIN dir.entries),
                                        LAMBDA f : EndsWith(f, CsvExt)), <<>>)]

\* touhous.txt, one tag a line: stripped, blank lines left out
get_touhou_tags(file) ==
    IF file.exists
    THEN {Strip(file.rows[i]) : i \in {j \in DOMAIN file.rows : Strip(file.rows[j]) # <<>>}}
    ELSE {}

(***************************************************************************)
(* process_comparison and the two series                                   *)
(***************************************************************************)
TypeFilter(t_type, touhou_whitelist) ==
    CASE t_type = "all" -> [tag_type_id |-> None, allowed_tags |-> None]
      [] t_type = "touhou" -> [tag_type_id |-> None, allowed_tags |-> Some(touhou_whitelist)]
      [] OTHER -> [tag_type_id |-> Some(TAG_TYPES[t_type]), allowed_tags |-> None]

TypeStats(dir, old_filename, new_filename, f) ==
    LET old == read_tags(SnapshotAt(dir, old_filename), f.tag_type_id, f.allowed_tags)
        new == read_tags(SnapshotAt(dir, new_filename), f.tag_type_id, f.allowed_tags)
        growth == calculate_growth(old, new)
    IN  [percent |-> TopBy("percent", growth), diff |-> TopBy("diff", growth)]

RangeLabel(old_filename, new_filename) ==
    get_display_name(old_filename) \o <<" ", "t", "o", " ">> \o get_display_name(new_filename)

\* entry_id or new_filename
EntryId(entry_id, new_filename) ==
    IF entry_id # None /\ entry_id[1] # <<>> THEN entry_id[1] ELSE new_filename

process_comparison(dir, old_filename, new_filename, touhou_whitelist, entry_id) ==
    [date |-> RangeLabel(old_filename, new_filename),
     id |-> EntryId(entry_id, new_filename),
     stats |-> [t \in {"general", "artist", "series", "character", "all", "touhou"} |->
                   TypeStats(dir, old_filename, new_filename,
                             TypeFilter(t, touhou_whitelist))]]

generate_daily_comparisonsOldestFirst(dir, fs, touhou_whitelist) ==
    [k \in 1..(IF Len(fs) = 0 THEN 0 ELSE Len(fs) - 1) |->
         process_comparison(dir, fs[k], fs[k + 1], touhou_whitelist, None)]

generate_daily_comparisons(dir, fs, touhou_whitelist) ==
    Reverse([k \in 1..(IF Len(fs) = 0 THEN 0 ELSE Len(fs) - 1) |->
                process_comparison(dir, fs[k], fs[k + 1], touhou_whitelist, None)])

\* the body of the try: the date of the name when it is a Monday
MondayDate(f) ==
    LET date == strptime(Remove(Remove(f, DanbooruPrefix), CsvExt))
    IN  IF date.ok /\ weekday(date) = 0 THEN date ELSE NoDate

WeeklyPrefix == <<"w", "e", "e", "k", "l", "y", "-">>

generate_weekly_comparisonsOldestFirst(dir, fs, touhou_whitelist) ==
    LET monday_files == SelectSeq(fs, LAMBDA f : MondayDate(f).ok)
    IN  [k \in 1..(IF Len(monday_files) = 0 THEN 0 ELSE Len(monday_files) - 1) |->
            process_comparison(dir, monday_files[k], monday_files[k + 1],
                               touhou_whitelist,
                               Some(WeeklyPrefix \o monday_files[k + 1]))]

generate_weekly_comparisons(dir, fs, touhou_whitelist) ==
    LET monday_files == SelectSeq(fs, LAMBDA f : MondayDate(f).ok)
    IN  Reverse([k \in 1..(IF Len(monday_files) = 0 THEN 0 ELSE Len(monday_files) - 1) |->
                    process_comparison(dir, monday_files[k], monday_files[k + 1],
                                       touhou_whitelist,
                                       Some(WeeklyPrefix \o monday_files[k + 1]))])

(***************************************************************************)
(* SpecGrowth: calculate_growth and the two rankings of process_comparison *)
(* on bounded pairs of tables.  Tags are numbered; tag 1 and tag 2 play    *)
(* "foo" and "bar" of the documented example (100 -> 150, 40 -> 100).      *)
(***************************************************************************)
Counts == {0, 40, 50, 100, 150}

Perms(S) == {p \in [1..Cardinality(S) -> S] : \A i, j \in DOMAIN p : i # j => p[i] # p[j]}

\* every dict over the tags T: any insertion order, any counts
DictsOver(T) ==
    {[i \in DOMAIN p |-> <<p[i], c[i]>>] : p \in Perms(T), c \in [1..Cardinality(T) -> Counts]}

SmallTags == 1..MaxSmallTags

\* old_tags is only looked up, so one insertion order of it is enough
SmallOld ==
    UNION {{[i \in 1..Cardinality(T) |->
                <<CHOOSE t \in T : Cardinality({u \in T : u < t}) = i - 1, c[i]>>] :
            c \in [1..Cardinality(T) -> Counts]} : T \in SUBSET SmallTags}

SmallNew == UNION {DictsOver(T) : T \in SUBSET SmallTags}

\* long tables: tag i holds 50 or 100, then grows by a multiple of 50
PatternOldCount(i) == 50 * (1 + (i % 2))

PatternOld(n) ==
    LET kept == {i \in 1..n : i % 12 # 0}
    IN  [k \in 1..Cardinality(kept) |->
            LET i == CHOOSE t \in kept : Cardinality({u \in kept : u < t}) = k - 1
            IN  <<i, PatternOldCount(i)>>]

PatternNew(n, m, a) == [i \in 1..n |-> <<i, PatternOldCount(i) + 50 * ((i + a) % m)>>]

InitGrowth ==
    /\ pc = "compare"
    /\ \/ old_tags \in SmallOld /\ new_tags \in SmallNew
       \/ \E n \in 0..MaxPatternTags, m \in 1..MaxPatternMod : \E a \in 0..(m - 1) :
             /\ old_tags = PatternOld(n)
             /\ new_tags = PatternNew(n, m, a)
    /\ raw_growth = <<>>
    /\ stats = <<>>
    /\ ReadIdle /\ SeriesIdle /\ MergeIdle

CalculateGrowth ==
    /\ pc = "compare"
    /\ raw_growth' = calculate_growth(old_tags, new_tags)
    /\ pc' = "rank"
    /\ UNCHANGED mergeVars
    /\ UNCHANGED <<old_tags, new_tags, stats, readVars, seriesVars>>

Rank ==
    /\ pc = "rank"
    /\ stats' = [percent |-> TopBy("percent", raw_growth),
                 diff |-> TopBy("diff", raw_growth)]
    /\ pc' = "ranked"
    /\ UNCHANGED mergeVars
    /\ UNCHANGED <<old_tags, new_tags, raw_growth, readVars, seriesVars>>

NextGrowth == CalculateGrowth \/ Rank

SpecGrowth == InitGrowth /\ [][NextGrowth]_vars

(***************************************************************************)
(* SpecRead: read_tags on bounded snapshot files in every filter mode.     *)
(***************************************************************************)
TagFoo == <<"f", "o", "o">>
TagBar == <<"b", "a", "r">>

CategoryFields == {<<"0">>, <<"1">>, <<"x">>, <<>>}
CountFields == {<<"1", "0", "0">>, <<" ", "7">>, <<"1", ".", "5">>, <<>>}

Rows ==
    {<<>>, <<TagFoo>>, <<TagFoo, <<"0">>>>, <<TagBar, <<"x">>>>}
    \cup {<<t, c, n>> : t \in {TagFoo, TagBar}, c \in CategoryFields, n \in CountFields}
    \cup {<<TagBar, <<"0">>, <<"1", "_", "0">>, <<"a">>>>}

Files == {NoFile} \cup {File(r) : r \in UNION {[1..n -> Rows] : n \in 0..MaxFileRows}}

Filters ==
    {[tag_type_id |-> None, allowed_tags |-> None],
     [tag_type_id |-> Some(TAG_TYPES.general), allowed_tags |-> None],
     [tag_type_id |-> Some(TAG_TYPES.artist), allowed_tags |-> None],
     [tag_type_id |-> None, allowed_tags |-> Some({TagFoo})],
     [tag_type_id |-> None, allowed_tags |-> Some({})]}

InitRead ==
    /\ pc = "read"
    /\ snapshot \in Files
    /\ filter \in Filters
    /\ tags = <<>>
    /\ GrowthIdle /\ SeriesIdle /\ MergeIdle

ReadTags ==
    /\ pc = "read"
    /\ tags' = read_tags(snapshot, filter.tag_type_id, filter.allowed_tags)
    /\ pc' = "returned"
    /\ UNCHANGED mergeVars
    /\ UNCHANGED <<growthVars, snapshot, filter, seriesVars>>

NextRead == ReadTags

SpecRead == InitRead /\ [][NextRead]_vars


(***************************************************************************)
(* SpecSeries: a run of main (with --json or as the console report), or a  *)
(* caller that lists the snapshots and builds the two series itself, on a  *)
(* bounded set of snapshot directories.                                    *)
(***************************************************************************)
export_jsonWritesAlways(dir, touhous) ==
    LET listing == get_sorted_files(dir)
        touhou_whitelist == get_touhou_tags(touhous)
        fs == listing.files
        daily_comparisons == generate_daily_comparisons(dir, fs, touhou_whitelist)
        weekly_comparisons == generate_weekly_comparisons(dir, fs, touhou_whitelist)
    IN  IF listing.raised
        THEN [raised |-> TRUE, files |-> <<>>, written |-> None, printed |-> <<>>]
        ELSE [raised |-> FALSE, files |-> fs,
              written |-> Some([daily |-> daily_comparisons,
                                weekly |-> weekly_comparisons]),
              printed |-> <<<<"Successfully generated tag_stats.json",
                              Len(daily_comparisons), Len(weekly_comparisons)>>>>]

export_json(dir, touhous) ==
    LET listing == get_sorted_files(dir)
        touhou_whitelist == get_touhou_tags(touhous)
        fs == listing.files
        daily_comparisons == generate_daily_comparisons(dir, fs, touhou_whitelist)
        weekly_comparisons == generate_weekly_comparisons(dir, fs, touhou_whitelist)
    IN  IF listing.raised
        THEN [raised |-> TRUE, files |-> <<>>, written |-> None, printed |-> <<>>]
        ELSE IF Len(fs) < 2
        THEN [raised |-> FALSE, files |-> fs, written |-> None,
              printed |-> <<<<"Not enough files to generate JSON.">>>>]
        ELSE [raised |-> FALSE, files |-> fs,
              written |-> Some([daily |-> daily_comparisons,
                                weekly |-> weekly_comparisons]),
              printed |-> <<<<"Successfully generated tag_stats.json",
                              Len(daily_comparisons), Len(weekly_comparisons)>>>>]

\* the snapshot rows of the day d of the month: foo (general) and bar
\* (character) grow from day to day, baz (artist) stays
SnapshotRows(d) ==
    <<<<TagFoo, <<"0">>, Str(100 + 10 * d), <<>>>>,
      <<TagBar, <<"4">>, Str(40 + 3 * d), <<"b">>>>,
      <<<<"b", "a", "z">>, <<"1">>, Str(60), <<>>>>>>

MondayDays == {1 + 7 * k : k \in 0..(MaxWeeks - 1)}

XCsv == <<"x", ".", "c", "s", "v">>
ATxt == <<"a", ".", "t", "x", "t">>

\* snapshots of Mondays of January 2024 and of 2024-01-02, a Tuesday; a name
\* that is no date (February 30), a name without a date, and a file that is
\* no snapshot
EntryNames ==
    {csv_filename_only(2024, 1, d) : d \in MondayDays \cup {2}}
        \cup {csv_filename_only(2024, 2, 30), XCsv, ATxt}

EntryRows(name) ==
    LET date == strptime(Remove(Remove(name, DanbooruPrefix), CsvExt))
    IN  IF date.ok THEN SnapshotRows(date.day)
        ELSE <<<<TagFoo, <<"0">>, <<"7", "0">>, <<>>>>>>

Directories ==
    {NoDirectory} \cup {Directory([n \in S |-> EntryRows(n)]) : S \in SUBSET EntryNames}

TouhousTxt == File(<<TagBar, <<>>, <<" ">>>>)

ArgSets ==
    {[json |-> TRUE, sort |-> "percent", type |-> "all"]}
        \cup {[json |-> FALSE, sort |-> k, type |-> t] :
                  k \in {"percent", "diff"}, t \in {"all", "touhou", "general", "character"}}

InitSeries ==
    /\ tags_dir \in Directories
    /\ \/ pc = "main" /\ args \in ArgSets
       \/ pc = "get_sorted_files" /\ args = <<>>
    /\ files = <<>> /\ daily = <<>> /\ weekly = <<>>
    /\ tag_stats = None /\ console = <<>> /\ error = None
    /\ GrowthIdle /\ ReadIdle /\ MergeIdle

Main ==
    /\ pc = "main"
    /\ IF ~tags_dir.exists
       THEN /\ console' = Append(console, <<"Directory 'tags' not found.">>)
            /\ pc' = "exit"
       ELSE /\ console' = console
            /\ pc' = IF args.json THEN "export_json" ELSE "report"
    /\ UNCHANGED mergeVars
    /\ UNCHANGED <<growthVars, readVars, tags_dir, args, files, daily, weekly,
                   tag_stats, error>>

ExportJson ==
    /\ pc = "export_json"
    /\ \E r \in {export_json(tags_dir, TouhousTxt)} :
           /\ error' = IF r.raised THEN Some("FileNotFoundError") ELSE error
           /\ files' = r.files
           /\ tag_stats' = IF r.written # None THEN r.written ELSE tag_stats
           /\ daily' = IF r.written # None THEN r.written[1].daily ELSE daily
           /\ weekly' = IF r.written # None THEN r.written[1].weekly ELSE weekly
           /\ console' = console \o r.printed
    /\ pc' = "exit"
    /\ UNCHANGED mergeVars
    /\ UNCHANGED <<growthVars, readVars, tags_dir, args>>

\* the console report of main: the risers of the last two snapshots
Report ==
    /\ pc = "report"
    /\ LET listing == get_sorted_files(tags_dir)
           fs == listing.files
           f == TypeFilter(args.type,
                           IF args.type = "touhou" THEN get_touhou_tags(TouhousTxt) ELSE {})
           old == read_tags(SnapshotAt(tags_dir, fs[Len(fs) - 1]),
                            f.tag_type_id, f.allowed_tags)
           new == read_tags(SnapshotAt(tags_dir, fs[Len(fs)]),
                            f.tag_type_id, f.allowed_tags)
           risers == SortedReverse(args.sort, calculate_growth(old, new))
       IN  /\ error' = IF listing.raised THEN Some("FileNotFoundError") ELSE error
           /\ files' = fs
           /\ console' =
                 IF listing.raised THEN console
                 ELSE IF Len(fs) < 2
                 THEN Append(console, <<"Need at least 2 files to compare.">>)
                 ELSE Append(console,
                             <<"Comparing", fs[Len(fs) - 1], fs[Len(fs)], args.type,
                               args.sort, Take(risers, TOP_COUNT)>>)
    /\ pc' = "exit"
    /\ UNCHANGED mergeVars
    /\ UNCHANGED <<growthVars, readVars, tags_dir, args, daily, weekly, tag_stats>>

GetSortedFiles ==
    /\ pc = "get_sorted_files"
    /\ LET listing == get_sorted_files(tags_dir)
       IN  IF listing.raised
           THEN /\ error' = Some("FileNotFoundError")
                /\ files' = files
                /\ pc' = "raised"
           ELSE /\ error' = error
                /\ files' = listing.files
                /\ pc' = "listed"
    /\ UNCHANGED mergeVars
    /\ UNCHANGED <<growthVars, readVars, tags_dir, args, daily, weekly, tag_stats,
                   console>>

GenerateDaily ==
    /\ pc = "listed"
    /\ daily' = generate_daily_comparisons(tags_dir, files, get_touhou_tags(TouhousTxt))
    /\ pc' = "daily"
    /\ UNCHANGED mergeVars
    /\ UNCHANGED <<growthVars, readVars, tags_dir, args, files, weekly, tag_stats,
                   console, error>>

GenerateWeekly ==
    /\ pc = "daily"
    /\ weekly' = generate_weekly_comparisons(tags_dir, files, get_touhou_tags(TouhousTxt))
    /\ pc' = "generated"
    /\ UNCHANGED mergeVars
    /\ UNCHANGED <<growthVars, readVars, tags_dir, args, files, daily, tag_stats,
                   console, error>>

NextSeries ==
    Main \/ ExportJson \/ Report \/ GetSortedFiles \/ GenerateDaily \/ GenerateWeekly

SpecSeries == InitSeries /\ [][NextSeries]_vars

(***************************************************************************)
(* scrape_tags.py: the daily snapshot file and merge_into_tags_csv.  A CSV *)
(* file is the sequence of its rows; the first row of tags.csv is its      *)
(* header.  Tag names and header cells are strings, the other cells are    *)
(* sequences of characters.                                                *)
(***************************************************************************)
minimum_count == 50

\* filename_date: strftime('%Y-%m-%d') of the day of the run
filename_date(day) ==
    CASE day = 1 -> "2024-01-01"
      [] day = 2 -> "2024-01-02"
      [] day = 3 -> "2024-01-03"
      [] OTHER -> "2024-01-04"

\* "Get Tags": the items of the API, which come by falling count, up to the
\* first one under minimum_count; "Merge Aliases" gives each its alias string
RECURSIVE GetTags(_, _)
GetTags(items, acc) ==
    IF items = <<>> THEN acc
    ELSE IF Head(items).post_count < minimum_count THEN acc
    ELSE GetTags(Tail(items), Append(acc, Head(items)))

\* the rows written for dan_tags: [key, category, post_count, alias string]
WrittenRows(fetched) ==
    [i \in DOMAIN fetched |->
        <<fetched[i].name, Str(fetched[i].category), Str(fetched[i].post_count),
          fetched[i].aliases>>]

RECURSIVE DictOfRows(_, _)
DictOfRows(rows, acc) ==
    IF rows = <<>> THEN acc
    ELSE DictOfRows(Tail(rows), DictSet(acc, Head(rows)[1], Head(rows)))

\* next(reader) of "Skip header" takes the first row, whatever it is; on a file
\* without rows it raises StopIteration
ReadDaily(file) ==
    IF file.rows = <<>> THEN [raised |-> TRUE, data |-> <<>>]
    ELSE [raised |-> FALSE, data |-> DictOfRows(Tail(file.rows), <<>>)]

Blanks(n) == [i \in 1..n |-> <<>>]

\* header.index(date_col)
IndexOf(header, cell) == CHOOSE i \in DOMAIN header :
    header[i] = cell /\ \A j \in 1..(i - 1) : header[j] # cell

WithDateColumnAppendedAlways(table, date_col) ==
    [header |-> Append(table.header, date_col),
     data |-> [i \in DOMAIN table.data |->
                  <<table.data[i][1], Append(table.data[i][2], <<>>)>>]]

\* "Add date column if not exists"
WithDateColumn(table, date_col) ==
    IF date_col \notin Range(table.header)
    THEN [header |-> Append(table.header, date_col),
          data |-> [i \in DOMAIN table.data |->
                       <<table.data[i][1], Append(table.data[i][2], <<>>)>>]]
    ELSE table

\* "Update existing tags with today's counts"
WithCounts(table, daily_data, date_col) ==
    [header |-> table.header,
     data |-> [i \in DOMAIN table.data |->
                  IF DictHas(daily_data, table.data[i][1])
                  THEN <<table.data[i][1],
                         [table.data[i][2] EXCEPT ![IndexOf(table.header, date_col)] =
                             DictGet(daily_data, table.data[i][1])[3]]>>
                  ELSE table.data[i]]]

NewRow(header, daily_row, date_col) ==
    [(<<daily_row[1], daily_row[2], daily_row[4]>> \o Blanks(Len(header) - 3))
        EXCEPT ![IndexOf(header, date_col)] = daily_row[3]]

\* "Add new tags (not in existing)", in the order the set gives them
RECURSIVE WithNewTags(_, _, _, _)
WithNewTags(table, daily_data, date_col, order) ==
    IF order = <<>> THEN table
    ELSE WithNewTags(
             [header |-> table.header,
              data |-> DictSet(table.data, Head(order),
                               NewRow(table.header, DictGet(daily_data, Head(order)),
                                      date_col))],
             daily_data, date_col, Tail(order))

\* sort_by_latest_count
LatestCount(header, row) ==
    IF row[Len(header)] = <<>> THEN 0 - 1 ELSE ParseInt(row[Len(header)]).val

\* sorted(keys, key=..., reverse=True) on <<key, row>> pairs
RECURSIVE InsertByKey(_, _)
InsertByKey(s, x) ==
    IF s = <<>> THEN <<x>>
    ELSE IF Head(s)[1] <= x[1] THEN <<Head(s)>> \o InsertByKey(Tail(s), x)
    ELSE <<x>> \o s

RECURSIVE SortByKey(_, _)
SortByKey(s, acc) ==
    IF s = <<>> THEN acc ELSE SortByKey(Tail(s), InsertByKey(acc, Head(s)))

SortedByKeyReverse(s) == Reverse(SortByKey(Reverse(s), <<>>))

\* the tags of the daily data that tags.csv does not hold yet
NewTags(tags_file, daily_file) ==
    IF tags_file.exists /\ ~ReadDaily(daily_file).raised
    THEN DictKeys(ReadDaily(daily_file).data)
             \ DictKeys(DictOfRows(Tail(tags_file.rows), <<>>))
    ELSE {}

\* order: the iteration order of the set new_tags
merge_into_tags_csv(tags_file, daily_file, date_str, order) ==
    LET read == ReadDaily(daily_file)
    IN  IF read.raised THEN [raised |-> TRUE, file |-> tags_file]
        ELSE IF tags_file.exists
        THEN LET existing == [header |-> Head(tags_file.rows),
                              data |-> DictOfRows(Tail(tags_file.rows), <<>>)]
                 merged == WithNewTags(
                               WithCounts(WithDateColumn(existing, date_str),
                                          read.data, date_str),
                               read.data, date_str, order)
                 keyed == [i \in DOMAIN merged.data |->
                              <<LatestCount(merged.header, merged.data[i][2]),
                                merged.data[i][2]>>]
                 sorted_rows == SortedByKeyReverse(keyed)
             IN  [raised |-> FALSE,
                  file |-> File(<<merged.header>> \o
                                [i \in DOMAIN sorted_rows |-> sorted_rows[i][2]])]
        ELSE LET keyed == [i \in DOMAIN read.data |->
                              <<ParseInt(read.data[i][2][3]).val, read.data[i][2]>>]
                 sorted_daily == SortedByKeyReverse(keyed)
             IN  [raised |-> FALSE,
                  file |-> File(<<<<"Tag Name", "Category", "Aliases", date_str>>>> \o
                                [i \in DOMAIN sorted_daily |->
                                    <<sorted_daily[i][2][1], sorted_daily[i][2][2],
                                      sorted_daily[i][2][4], sorted_daily[i][2][3]>>])]

(***************************************************************************)
(* SpecMerge: runs of the scraper, one after the other, from no tags.csv.  *)
(***************************************************************************)
TagNames == {"foo", "bar", "baz"}

TagCategory(name) == IF name = "foo" THEN 0 ELSE IF name = "bar" THEN 4 ELSE 1

TagAliases(name) == IF name = "bar" THEN <<"b">> ELSE <<>>

\* what the API holds on a day, by falling count: the counts are all the
\* same, or fall by 10 from tag to tag and end under minimum_count
ApiItems(names, day, falling) ==
    [i \in DOMAIN names |->
        [name |-> names[i], category |-> TagCategory(names[i]),
         post_count |-> IF falling THEN minimum_count + 20 + day - 10 * i
                        ELSE minimum_count + 10 + day,
         aliases |-> TagAliases(names[i])]]

ApiStates(day) ==
    {ApiItems(names, day, falling) :
        names \in UNION {Perms(T) : T \in SUBSET TagNames}, falling \in BOOLEAN}

InitMerge ==
    /\ pc = "scrape"
    /\ runs = 0 /\ today = 1 /\ dan_tags = <<>>
    /\ daily_csv = NoFile /\ tags_csv = NoFile /\ before = NoFile
    /\ error = None
    /\ tags_dir = <<>> /\ args = <<>> /\ files = <<>> /\ daily = <<>> /\ weekly = <<>>
    /\ tag_stats = <<>> /\ console = <<>>
    /\ GrowthIdle /\ ReadIdle

\* a run of the script, on the day of the last run or later: "Get Tags"
Scrape ==
    /\ pc \in {"scrape", "merged", "crashed"}
    /\ runs < MaxRuns
    /\ runs' = runs + 1
    /\ \E day \in today..MaxDays :
          /\ today' = day
          /\ \E items \in ApiStates(day) : dan_tags' = GetTags(items, <<>>)
    /\ error' = None
    /\ pc' = "write"
    /\ UNCHANGED <<growthVars, readVars, tags_dir, args, files, daily, weekly,
                   tag_stats, console, daily_csv, tags_csv, before>>

\* "Write to file": no header row
WriteSnapshot ==
    /\ pc = "write"
    /\ daily_csv' = File(WrittenRows(dan_tags))
    /\ pc' = "merge"
    /\ UNCHANGED <<growthVars, readVars, tags_dir, args, files, daily, weekly,
                   tag_stats, console, error, runs, today, dan_tags, tags_csv, before>>

Merge ==
    /\ pc = "merge"
    /\ \E order \in Perms(NewTags(tags_csv, daily_csv)) :
          \E r \in {merge_into_tags_csv(tags_csv, daily_csv, filename_date(today), order)} :
              /\ tags_csv' = r.file
              /\ error' = IF r.raised THEN Some("StopIteration") ELSE error
              /\ pc' = IF r.raised THEN "crashed" ELSE "merged"
    /\ before' = tags_csv
    /\ UNCHANGED <<growthVars, readVars, tags_dir, args, files, daily, weekly,
                   tag_stats, console, runs, today, dan_tags, daily_csv>>

NextMerge == Scrape \/ WriteSnapshot \/ Merge

SpecMerge == InitMerge /\ [][NextMerge]_vars

(***************************************************************************)
(* Properties of calculate_growth and of the rankings (SpecGrowth).        *)
(***************************************************************************)
RecordsOf(t) == {i \in DOMAIN raw_growth : raw_growth[i].tag = t}

Qualifies(t) ==
    /\ DictHas(old_tags, t) /\ DictHas(new_tags, t)
    /\ DictGet(new_tags, t) >= 50
    /\ DictGet(old_tags, t) > 0

\* C1: calculate_growth returns exactly one record for each tag that is in both
\* tables with new >= 50 and old > 0 and none for any other tag; a record holds
\* old, new, diff = new - old and a percent p with p * old = (new - old) * 100.
C1_GrowthRecords ==
    pc # "compare" =>
        /\ \A t \in DictKeys(old_tags) \cup DictKeys(new_tags) :
              Cardinality(RecordsOf(t)) = IF Qualifies(t) THEN 1 ELSE 0
        /\ \A i \in DOMAIN raw_growth :
              LET r == raw_growth[i]
              IN  /\ Qualifies(r.tag)
                  /\ r.old = DictGet(old_tags, r.tag)
                  /\ r.new = DictGet(new_tags, r.tag)
                  /\ r.diff = DictGet(new_tags, r.tag) - DictGet(old_tags, r.tag)
                  /\ r.percent[2] > 0
                  /\ r.percent[1] * DictGet(old_tags, r.tag) =
                        (DictGet(new_tags, r.tag) - DictGet(old_tags, r.tag)) * 100
                            * r.percent[2]

\* a tag with old = 0 and new >= 50 is left out, and a tag whose old count is
\* under the floor has its record (40 -> 100: diff 60, 150 percent)
C1_Witness ==
    /\ pc # "compare"
    /\ \E t \in DictKeys(old_tags) \cap DictKeys(new_tags) :
          DictGet(old_tags, t) = 0 /\ DictGet(new_tags, t) >= 50 /\ RecordsOf(t) = {}
    /\ \E i \in DOMAIN raw_growth :
          /\ raw_growth[i].old = 40 /\ raw_growth[i].new = 100
          /\ raw_growth[i].diff = 60 /\ raw_growth[i].percent = <<150, 1>>

IndexIn(s, x) == CHOOSE i \in DOMAIN s : s[i] = x

KeyEq(key, a, b) == KeyLe(key, a, b) /\ KeyLe(key, b, a)

TopListOk(key, top) ==
    /\ Len(top) <= 20
    /\ Len(top) = (IF Len(raw_growth) < 20 THEN Len(raw_growth) ELSE 20)
    /\ \A i \in DOMAIN top : top[i] \in Range(raw_growth)
    /\ \A i, j \in DOMAIN top : i < j =>
          /\ top[i] # top[j]
          /\ KeyLe(key, top[j], top[i])
          /\ KeyEq(key, top[i], top[j]) =>
                IndexIn(raw_growth, top[i]) < IndexIn(raw_growth, top[j])
    /\ \A r \in Range(raw_growth) \ Range(top) : \A i \in DOMAIN top :
          /\ KeyLe(key, r, top[i])
          /\ KeyEq(key, r, top[i]) =>
                IndexIn(raw_growth, top[i]) < IndexIn(raw_growth, r)

\* C2: each top list has at most 20 entries, all of them growth records, in
\* non-increasing order of its key; it holds the 20 largest records, and records
\* with equal keys keep the order they have in the growth list.
C2_TopLists ==
    pc = "ranked" =>
        /\ TopListOk("percent", stats.percent)
        /\ TopListOk("diff", stats.diff)

\* more than 20 records, so the list is cut, and it holds tied records
C2_Witness ==
    /\ pc = "ranked"
    /\ Len(raw_growth) > 20
    /\ Len(stats.percent) = 20
    /\ \E i, j \in DOMAIN stats.diff :
          i < j /\ KeyEq("diff", stats.diff[i], stats.diff[j])
    /\ \E i, j \in DOMAIN stats.percent :
          i < j /\ ~KeyEq("percent", stats.percent[i], stats.percent[j])

(***************************************************************************)
(* Properties of read_tags (SpecRead).                                     *)
(***************************************************************************)
FieldIsInt(row, n) == Len(row) >= n /\ ParseInt(row[n]).ok

\* the row's category_id or post_count field is missing or is no integer
Malformed(row) == ~FieldIsInt(row, 2) \/ ~FieldIsInt(row, 3)

RowsOfTag(t) ==
    {i \in DOMAIN snapshot.rows : Len(snapshot.rows[i]) >= 1 /\ snapshot.rows[i][1] = t}

\* C6 as stated: in every filter mode a row whose category_id or post_count
\* is missing or no integer is dropped (its tag is in the table only when a
\* well-formed row carries it too), and a missing file gives the empty table.
C6_MalformedRowsDropped ==
    pc = "returned" =>
        /\ ~snapshot.exists => tags = <<>>
        /\ \A i \in DOMAIN snapshot.rows :
              LET row == snapshot.rows[i]
              IN  (Malformed(row) /\ Len(row) >= 1 /\ DictHas(tags, row[1])) =>
                      \E j \in RowsOfTag(row[1]) : ~Malformed(snapshot.rows[j])

\* the rows that pass the filter of the call and hold an integer post_count;
\* the category_id is read only when the call filters by category id
Passes(row) ==
    /\ FieldIsInt(row, 3)
    /\ filter.tag_type_id # None =>
          FieldIsInt(row, 2) /\ ParseInt(row[2]).val = filter.tag_type_id[1]
    /\ filter.allowed_tags # None => row[1] \in filter.allowed_tags[1]

\* C6 amended: the table holds exactly the tags of the rows that hold an integer
\* post_count and pass the filter (the last such row gives the count); the
\* category_id must be an integer only under a filter by category id.
C6_StoredRows ==
    pc = "returned" =>
        /\ ~snapshot.exists => tags = <<>>
        /\ \A i \in DOMAIN snapshot.rows :
              ~FieldIsInt(snapshot.rows[i], 3) /\ Len(snapshot.rows[i]) >= 1 =>
                  \/ ~DictHas(tags, snapshot.rows[i][1])
                  \/ \E j \in RowsOfTag(snapshot.rows[i][1]) :
                        FieldIsInt(snapshot.rows[j], 3)
        /\ \A t \in {TagFoo, TagBar} :
              LET passing == {i \in RowsOfTag(t) : Passes(snapshot.rows[i])}
              IN  /\ DictHas(tags, t) <=> passing # {}
                  /\ passing # {} =>
                        DictGet(tags, t) = ParseInt(snapshot.rows[Max(passing)][3]).val

\* an unfiltered read keeps the one row of a tag although its category_id is no
\* integer, and a read by category id drops a row of the same kind
C6_Witness ==
    /\ pc = "returned"
    /\ snapshot.exists
    /\ \E i \in DOMAIN snapshot.rows :
          LET row == snapshot.rows[i]
          IN  /\ Len(row) >= 3 /\ ~ParseInt(row[2]).ok /\ ParseInt(row[3]).ok
              /\ RowsOfTag(row[1]) = {i}
              /\ filter.tag_type_id = None
              /\ DictHas(tags, row[1])
    /\ \E i \in DOMAIN snapshot.rows :
          ~FieldIsInt(snapshot.rows[i], 3) /\ Len(snapshot.rows[i]) >= 1
              /\ ~DictHas(tags, snapshot.rows[i][1])


(***************************************************************************)
(* Properties of the listing and of the series (SpecSeries).               *)
(***************************************************************************)
\* a before b in lexicographic order
LexLess(a, b) ==
    \E k \in 1..(Len(a) + 1) :
        /\ k <= Len(b) + 1
        /\ \A i \in 1..(k - 1) : a[i] = b[i]
        /\ \/ k = Len(a) + 1 /\ k <= Len(b)
           \/ k <= Len(a) /\ k <= Len(b) /\ Ord(a[k]) < Ord(b[k])

CsvNames == {n \in DOMAIN tags_dir.entries : EndsWith(n, CsvExt)}

Listed(fs) ==
    /\ Range(fs) = CsvNames
    /\ \A i, j \in DOMAIN fs : i < j => LexLess(fs[i], fs[j])

\* the name without its ".csv"
Shown(f) == SubSeq(f, 1, Len(f) - 4)

LabelOf(old, new) == Shown(old) \o <<" ", "t", "o", " ">> \o Shown(new)

\* the series a caller built, or the series main wrote
SeriesBuilt == pc = "generated" \/ (pc = "exit" /\ tag_stats # None)

DailySeriesOf(fs, series) ==
    /\ Len(series) = (IF Len(fs) = 0 THEN 0 ELSE Len(fs) - 1)
    /\ \A k \in DOMAIN series :
          /\ series[k].id = fs[Len(fs) - k + 1]
          /\ series[k].date = LabelOf(fs[Len(fs) - k], fs[Len(fs) - k + 1])

\* C5: for a list of n snapshots generate_daily_comparisons returns max(n-1, 0)
\* records, one for each adjacent pair, the most recent pair first; the id of a
\* record is the newer snapshot's name, its label '<old> to <new>'.
C5_DailySeries ==
    /\ pc \in {"daily", "generated"} => DailySeriesOf(files, daily)
    /\ (pc = "exit" /\ tag_stats # None) =>
          /\ DailySeriesOf(files, tag_stats[1].daily)
          /\ daily = tag_stats[1].daily

\* three pairs or more, so that the order shows
C5_Witness ==
    /\ pc = "generated"
    /\ Len(files) >= 4
    /\ Len(daily) = Len(files) - 1
    /\ daily[1].id = files[Len(files)]
    /\ daily[1].id # daily[Len(daily)].id

IsMondaySnapshot(f) ==
    LET date == strptime(Remove(Remove(f, DanbooruPrefix), CsvExt))
    IN  date.ok /\ weekday(date) = 0

WeeklySeriesOf(fs, series) ==
    LET mondays == SelectSeq(fs, IsMondaySnapshot)
        n == Len(mondays)
    IN  /\ Len(series) = (IF n = 0 THEN 0 ELSE n - 1)
        /\ \A k \in DOMAIN series :
              /\ series[k].id = WeeklyPrefix \o mondays[n - k + 1]
              /\ series[k].date = LabelOf(mondays[n - k], mondays[n - k + 1])

ExampleSnapshots ==
    <<csv_filename_only(2024, 1, 1), csv_filename_only(2024, 1, 2),
      csv_filename_only(2024, 1, 8), csv_filename_only(2024, 1, 15)>>

\* C3: generate_weekly_comparisons returns one record for each pair of adjacent
\* Monday snapshots (names that are no date or no Monday take no part), with id
\* 'weekly-' + the newer name, the most recent pair first; the Mondays 01-01,
\* 01-08, 01-15 with 01-02 between give (01-08, 01-15), then (01-01, 01-08).
C3_WeeklySeries ==
    /\ pc = "generated" => WeeklySeriesOf(files, weekly)
    /\ (pc = "exit" /\ tag_stats # None) => WeeklySeriesOf(files, tag_stats[1].weekly)
    /\ (pc = "generated" /\ SelectSeq(files, LAMBDA f : f \in Range(ExampleSnapshots))
                               = ExampleSnapshots
            /\ Cardinality({i \in DOMAIN files : IsMondaySnapshot(files[i])}) = 3) =>
          /\ Len(weekly) = 2
          /\ weekly[1].date = LabelOf(ExampleSnapshots[3], ExampleSnapshots[4])
          /\ weekly[2].date = LabelOf(ExampleSnapshots[1], ExampleSnapshots[3])

\* the documented example, with the names that are no dates beside it
C3_Witness ==
    /\ pc = "generated"
    /\ Range(files) = Range(ExampleSnapshots) \cup {csv_filename_only(2024, 2, 30), XCsv}
    /\ Len(weekly) = 2
    /\ weekly[1].id = WeeklyPrefix \o csv_filename_only(2024, 1, 15)

\* C4: the old and the new snapshot of every weekly record are Mondays seven
\* days apart; no record spans the gap of a missing Monday.
C4_WeeklySevenDaysApart ==
    SeriesBuilt =>
        \A k \in DOMAIN weekly : \A o, n \in Range(files) :
            weekly[k].date = LabelOf(o, n) =>
                /\ IsMondaySnapshot(o) /\ IsMondaySnapshot(n)
                /\ Ordinal(strptime(Remove(Remove(n, DanbooruPrefix), CsvExt)))
                      - Ordinal(strptime(Remove(Remove(o, DanbooruPrefix), CsvExt))) = 7

\* C7 as stated: get_sorted_files never fails; without a directory or without
\* snapshots it gives the empty list, and else the '.csv' names in ascending
\* order.
C7_ListingNeverFails ==
    pc \in {"listed", "raised"} =>
        /\ error = None
        /\ IF ~tags_dir.exists THEN files = <<>> ELSE Listed(files)

\* C7 amended: on a directory that exists get_sorted_files returns the '.csv'
\* names in ascending order (none: the empty list); on a missing directory it
\* raises FileNotFoundError.  main tests for the directory first: without one it
\* prints a message and ends, calling nothing and writing nothing.
C7_Listing ==
    /\ pc = "listed" => tags_dir.exists /\ error = None /\ Listed(files)
    /\ pc = "raised" => ~tags_dir.exists /\ error = Some("FileNotFoundError")
    /\ (pc = "exit" /\ tags_dir.exists) => error = None /\ Listed(files)
    /\ (pc = "exit" /\ ~tags_dir.exists) =>
          /\ error = None
          /\ console = <<<<"Directory 'tags' not found.">>>>
          /\ files = <<>> /\ tag_stats = None

\* a directory with snapshots, a '.csv' name that is no date and another file
C7_Witness ==
    /\ pc = "listed"
    /\ {XCsv, ATxt, csv_filename_only(2024, 1, 8), csv_filename_only(2024, 1, 1)}
          \subseteq DOMAIN tags_dir.entries
    /\ Len(files) >= 3
    /\ files[1] = csv_filename_only(2024, 1, 1)
    /\ files[Len(files)] = XCsv

MondayCount == Cardinality({n \in CsvNames : IsMondaySnapshot(n)})

\* C8 as stated: with fewer than 2 snapshots the output is generated without an
\* error and holds an empty daily and an empty weekly series; with fewer than 2
\* Monday snapshots it holds an empty weekly series.
C8_EmptySeriesGenerated ==
    (pc = "exit" /\ tags_dir.exists /\ args.json) =>
        /\ error = None
        /\ Cardinality(CsvNames) < 2 => tag_stats = Some([daily |-> <<>>, weekly |-> <<>>])
        /\ MondayCount < 2 => tag_stats # None /\ tag_stats[1].weekly = <<>>

\* C8 amended: with fewer than 2 snapshots export_json raises nothing, prints
\* "Not enough files to generate JSON." and writes no output at all; with 2
\* snapshots or more it writes the output, whose weekly series is empty when
\* fewer than 2 of them are Mondays.  The two generate functions return the
\* empty list on a list of fewer than 2 (Monday) snapshots.
C8_FewSnapshots ==
    /\ (pc = "exit" /\ tags_dir.exists /\ args.json) =>
          /\ error = None
          /\ Cardinality(CsvNames) < 2 =>
                /\ tag_stats = None
                /\ console = <<<<"Not enough files to generate JSON.">>>>
          /\ Cardinality(CsvNames) >= 2 =>
                /\ tag_stats # None
                /\ Len(tag_stats[1].daily) = Cardinality(CsvNames) - 1
                /\ MondayCount < 2 => tag_stats[1].weekly = <<>>
    /\ pc = "generated" =>
          /\ Len(files) < 2 => daily = <<>>
          /\ MondayCount < 2 => weekly = <<>>

\* main --json on a directory that holds no snapshot
C8_Witness ==
    /\ pc = "exit" /\ tags_dir.exists /\ args.json
    /\ CsvNames = {}
    /\ tag_stats = None
    /\ console = <<<<"Not enough files to generate JSON.">>>>


(***************************************************************************)
(* Properties of merge_into_tags_csv (SpecMerge).                          *)
(***************************************************************************)
TableHeader(file) == Head(file.rows)

TableRows(file) == Tail(file.rows)

TableTags(file) == IF file.exists THEN {TableRows(file)[i][1] : i \in DOMAIN TableRows(file)} ELSE {}

ColumnOf(file, date_col) == CHOOSE i \in DOMAIN TableHeader(file) : TableHeader(file)[i] = date_col

\* the row of the table holds the count of the daily row in the column of the day
Merged(daily_row) ==
    \E j \in DOMAIN TableRows(tags_csv) :
        /\ TableRows(tags_csv)[j][1] = daily_row[1]
        /\ filename_date(today) \in Range(TableHeader(tags_csv))
        /\ TableRows(tags_csv)[j][ColumnOf(tags_csv, filename_date(today))] = daily_row[3]

\* C9: after merge_into_tags_csv every row of the daily snapshot file, its first
\* row too, has a row in tags.csv that holds its post count in the column of the
\* date, whether tags.csv was there before or not.
C9_DailyRowsMerged ==
    pc = "merged" => \A i \in DOMAIN daily_csv.rows : Merged(daily_csv.rows[i])

\* C10: from no tags.csv, after any merges: the header holds a date at most once
\* (a date that is there already gets no second column, its values are replaced),
\* every row has as many fields as the header, a tag has at most one row, and a
\* merge removes no tag's row.
C10_TableWellFormed ==
    /\ tags_csv.exists =>
          /\ \A i, j \in DOMAIN TableHeader(tags_csv) :
                i # j => TableHeader(tags_csv)[i] # TableHeader(tags_csv)[j]
          /\ \A i \in DOMAIN TableRows(tags_csv) :
                Len(TableRows(tags_csv)[i]) = Len(TableHeader(tags_csv))
          /\ \A i, j \in DOMAIN TableRows(tags_csv) :
                i # j => TableRows(tags_csv)[i][1] # TableRows(tags_csv)[j][1]
    /\ TableTags(before) \subseteq TableTags(tags_csv)
    /\ before.exists => tags_csv.exists
    /\ (pc = "merged" /\ before.exists) =>
          /\ filename_date(today) \in Range(TableHeader(before)) =>
                TableHeader(tags_csv) = TableHeader(before)
          /\ filename_date(today) \notin Range(TableHeader(before)) =>
                TableHeader(tags_csv) = Append(TableHeader(before), filename_date(today))
          /\ \A i \in DOMAIN daily_csv.rows : i > 1 => Merged(daily_csv.rows[i])

\* a second merge of the same date, which changes a count and adds a tag
C10_Witness ==
    /\ pc = "merged" /\ before.exists
    /\ filename_date(today) \in Range(TableHeader(before))
    /\ Len(TableHeader(tags_csv)) = 4
    /\ TableTags(tags_csv) # TableTags(before)
    /\ \E i \in DOMAIN TableRows(before) : TableRows(before)[i] \notin Range(TableRows(tags_csv))

====
